---- MODULE Spec2Model ----
(***************************************************************************)
(* Model of frontend/src/optimizer/plan_node/stream_materialize.rs:       *)
(* the construction of a StreamMaterialize plan node (create,             *)
(* create_for_table, clone_with_input) with the distribution resolver     *)
(* rewrite_input and the table catalog builder derive_table_catalog.      *)
(*                                                                         *)
(* A plan node is a record of the properties the file reads from a        *)
(* PlanRef: kind, schema, stream_key, functional_dependency, dist,        *)
(* append_only, emit_on_window_close, watermark_columns; an exchange also *)
(* carries its child in `input`.  Column indices are 0-based as in Rust,  *)
(* sequences are 1-based.  A Rust panic (assert_matches!, assert_eq!,     *)
(* unreachable!, expect) is the result "panic", an Err(..) is "error".    *)
(* Opaque pass-through arguments (name, definition, version, cardinality, *)
(* the option context) take no part in any decision and are left out.     *)
(***************************************************************************)
EXTENDS Naturals, Sequences, FiniteSets

VARIABLES scope, call, outcome, mat, prev, clones

vars == <<scope, call, outcome, mat, prev, clones>>

\* ---------------------------------------------------------------- bounds
MaxCols == 2      \* longest schema
MaxKeyLen == 2    \* longest stream key, hash key, key-column list, order-by
MaxClones == 1    \* child substitutions applied to one node

\* ------------------------------------------------------------- utilities
Range(s) == {s[i] : i \in DOMAIN s}

Cols(n) == 0 .. (n - 1)

NoDupSeqs(S, n) ==
    {s \in UNION {[1 .. k -> S] : k \in 0 .. n} :
        \A i, j \in DOMAIN s : i # j => s[i] # s[j]}

\* FixedBitSet::ones(): the members in ascending order
RECURSIVE Ones(_)
Ones(S) ==
    IF S = {} THEN <<>>
    ELSE LET m == CHOOSE x \in S : \A y \in S : x <= y
         IN <<m>> \o Ones(S \ {m})

\* Itertools::unique(): first occurrences, order kept
RECURSIVE Unique(_)
Unique(s) ==
    IF s = <<>> THEN <<>>
    ELSE LET r == Unique(SubSeq(s, 1, Len(s) - 1))
         IN IF s[Len(s)] \in Range(r) THEN r ELSE Append(r, s[Len(s)])

Some(x) == [some |-> TRUE, v |-> x]
NoneKey == [some |-> FALSE, v |-> <<>>]
NoneIdx == [some |-> FALSE, v |-> 0]

Ok(x) == [status |-> "ok", v |-> x]
Panic == [status |-> "panic", v |-> <<>>]
Error == [status |-> "error", v |-> <<>>]

\* ---------------------------------------------------------- distribution
Single == [tag |-> "Single", key |-> <<>>]
HashShard(k) == [tag |-> "HashShard", key |-> k]

Any == [tag |-> "Any", cols |-> {}, dist |-> Single]
ShardByKey(S) == [tag |-> "ShardByKey", cols |-> S, dist |-> Single]
PhysicalDist(d) == [tag |-> "PhysicalDist", cols |-> {}, dist |-> d]

\* RequiredDist::single()
single == PhysicalDist(Single)

\* RequiredDist::shard_by_key(tot_col_num, key)
shard_by_key(tot_col_num, key) == ShardByKey(Range(key) \cap Cols(tot_col_num))

\* Distribution::dist_column_indices()
dist_column_indices(d) == IF d.tag = "HashShard" THEN d.key ELSE <<>>

\* Distribution::satisfies(required)
satisfies(d, required) ==
    CASE required.tag = "Any" -> TRUE
      [] required.tag = "ShardByKey" ->
            d.tag = "HashShard" /\ Range(d.key) \subseteq required.cols
      [] required.tag = "PhysicalDist" -> d = required.dist

\* RequiredDist::to_dist()
to_dist(required) ==
    IF required.tag = "ShardByKey" THEN HashShard(Ones(required.cols))
    ELSE required.dist

\* StreamExchange::new(input, dist): every property but the distribution is
\* the child's
StreamExchange(plan, d) ==
    [kind |-> "StreamExchange",
     schema |-> plan.schema,
     stream_key |-> plan.stream_key,
     functional_dependency |-> plan.functional_dependency,
     dist |-> d,
     append_only |-> plan.append_only,
     emit_on_window_close |-> plan.emit_on_window_close,
     watermark_columns |-> plan.watermark_columns,
     input |-> <<plan>>]

\* RequiredDist::enforce(plan, order): always a redistribution stage
enforce(required, plan) == StreamExchange(plan, to_dist(required))

\* RequiredDist::enforce_if_not_satisfies(plan, order), stream convention
enforce_if_not_satisfies(required, plan) ==
    IF satisfies(plan.dist, required) THEN Ok(plan)
    ELSE Ok(enforce(required, plan))

IsStreamJoin(plan) ==
    plan.kind \in {"StreamHashJoin", "StreamTemporalJoin", "StreamDeltaJoin"}

\* ------------------------------------------------- functional dependency
\* FunctionalDependencySet: the columns determined by the set S
RECURSIVE Closure(_, _)
Closure(S, fds) ==
    LET T == S \cup {fd.to : fd \in {g \in fds : g.from \subseteq S}}
    IN IF T = S THEN S ELSE Closure(T, fds)

\* ------------------------------------------------------------ key deriver
ColumnOrder(idx, ord) == [column_index |-> idx, order_type |-> ord]

OrderCols(order) == {order[i].column_index : i \in DOMAIN order}

\* the walk over the requested order: a column is accumulated until the
\* accumulated columns determine every column of the row
RECURSIVE WalkOrder(_, _, _, _)
WalkOrder(order, acc, fds, n) ==
    IF order = <<>> \/ Closure(OrderCols(acc), fds) = Cols(n) THEN acc
    ELSE WalkOrder(Tail(order), Append(acc, Head(order)), fds, n)

RECURSIVE MissingKeyCols(_, _)
MissingKeyCols(key, present) ==
    IF key = <<>> THEN <<>>
    ELSE IF Head(key) \in present THEN MissingKeyCols(Tail(key), present)
    ELSE <<ColumnOrder(Head(key), "Ascending")>>
             \o MissingKeyCols(Tail(key), present)

\* derive::derive_pk(input, user_order_by, columns) -> (table_pk, stream_key)
derive_pk(input, user_order_by, columns) ==
    IF ~input.stream_key.some THEN Panic          \* expect_stream_key
    ELSE LET stream_key == Unique(input.stream_key.v)
             walked == WalkOrder(user_order_by, <<>>,
                                 input.functional_dependency,
                                 Len(input.schema))
         IN Ok([pk |-> walked \o MissingKeyCols(stream_key, OrderCols(walked)),
                stream_key |-> stream_key])

\* derive::derive_columns(input_schema, out_names, user_cols)
derive_columns(schema, out_names, user_cols) ==
    IF \E i, j \in DOMAIN out_names : i # j /\ out_names[i] = out_names[j]
    THEN Error
    ELSE IF Len(out_names) # Cardinality(user_cols \cap Cols(Len(schema)))
    THEN Panic
    ELSE Ok([i \in DOMAIN schema |->
                LET hidden == (i - 1) \notin user_cols
                    rank == Cardinality({c \in user_cols : c <= i - 1})
                IN [name |-> IF hidden THEN schema[i].name ELSE out_names[rank],
                    data_type |-> schema[i].data_type,
                    is_hidden |-> hidden]])

\* the columns of a table, bound from the same schema before planning
ColumnsOf(schema) ==
    [i \in DOMAIN schema |->
        [name |-> schema[i].name, data_type |-> schema[i].data_type,
         is_hidden |-> FALSE]]

\* super::reorganize_elements_id(input): renumbers expression ids only
reorganize_elements_id(input) == input

\* ------------------------------------------------------ StreamMaterialize
\* new, with the append-only flag read from the table instead of the input
new_table_append_only(input, table) ==
    [base |-> [schema |-> input.schema,
               stream_key |-> Some(table.stream_key),
               functional_dependency |-> input.functional_dependency,
               dist |-> input.dist,
               append_only |-> table.append_only,
               emit_on_window_close |-> input.emit_on_window_close,
               watermark_columns |-> input.watermark_columns],
     input |-> input,
     table |-> table]

\* StreamMaterialize::new(input, table)
new(input, table) ==
    [base |-> [schema |-> input.schema,
               stream_key |-> Some(table.stream_key),
               functional_dependency |-> input.functional_dependency,
               dist |-> input.dist,
               append_only |-> input.append_only,
               emit_on_window_close |-> input.emit_on_window_close,
               watermark_columns |-> input.watermark_columns],
     input |-> input,
     table |-> table]

\* rewrite_input, with the join case enforced only when not satisfied
rewrite_input_join_if_not_satisfies(input, user_distributed_by, table_type) ==
    IF input.dist.tag = "Single"
    THEN enforce_if_not_satisfies(single, input)
    ELSE CASE table_type = "Table" ->
                IF user_distributed_by.tag # "ShardByKey" THEN Panic
                ELSE enforce_if_not_satisfies(user_distributed_by, input)
           [] table_type = "MaterializedView" ->
                IF user_distributed_by.tag # "Any" THEN Panic
                ELSE IF ~input.stream_key.some THEN Panic
                ELSE LET required_dist ==
                             shard_by_key(Len(input.schema), input.stream_key.v)
                     IN IF IsStreamJoin(input)
                        THEN enforce_if_not_satisfies(required_dist, input)
                        ELSE enforce_if_not_satisfies(required_dist, input)
           [] table_type = "Index" ->
                IF ~(user_distributed_by.tag = "PhysicalDist"
                        /\ user_distributed_by.dist.tag = "HashShard")
                THEN Panic
                ELSE enforce_if_not_satisfies(user_distributed_by, input)
           [] table_type = "Internal" -> Panic

\* rewrite_input, without the checks of the declared distribution
rewrite_input_unchecked(input, user_distributed_by, table_type) ==
    IF input.dist.tag = "Single"
    THEN enforce_if_not_satisfies(single, input)
    ELSE CASE table_type = "Table" ->
                IF FALSE THEN Panic
                ELSE enforce_if_not_satisfies(user_distributed_by, input)
           [] table_type = "MaterializedView" ->
                IF user_distributed_by.tag # "Any" THEN Panic
                ELSE IF ~input.stream_key.some THEN Panic
                ELSE LET required_dist ==
                             shard_by_key(Len(input.schema), input.stream_key.v)
                     IN IF IsStreamJoin(input)
                        THEN Ok(enforce(required_dist, input))
                        ELSE enforce_if_not_satisfies(required_dist, input)
           [] table_type = "Index" ->
                IF FALSE THEN Panic
                ELSE enforce_if_not_satisfies(user_distributed_by, input)
           [] table_type = "Internal" -> Panic

\* rewrite_input, with the declared distribution required of a materialized
\* view that is not over a join
rewrite_input_mv_declared(input, user_distributed_by, table_type) ==
    IF input.dist.tag = "Single"
    THEN enforce_if_not_satisfies(single, input)
    ELSE CASE table_type = "Table" ->
                IF user_distributed_by.tag # "ShardByKey" THEN Panic
                ELSE enforce_if_not_satisfies(user_distributed_by, input)
           [] table_type = "MaterializedView" ->
                IF user_distributed_by.tag # "Any" THEN Panic
                ELSE IF ~input.stream_key.some THEN Panic
                ELSE LET required_dist ==
                             shard_by_key(Len(input.schema), input.stream_key.v)
                     IN IF IsStreamJoin(input)
                        THEN Ok(enforce(required_dist, input))
                        ELSE enforce_if_not_satisfies(user_distributed_by, input)
           [] table_type = "Index" ->
                IF ~(user_distributed_by.tag = "PhysicalDist"
                        /\ user_distributed_by.dist.tag = "HashShard")
                THEN Panic
                ELSE enforce_if_not_satisfies(user_distributed_by, input)
           [] table_type = "Internal" -> Panic

\* rewrite_input, without the case of an input on a single worker
rewrite_input_no_single(input, user_distributed_by, table_type) ==
    IF FALSE
    THEN enforce_if_not_satisfies(single, input)
    ELSE CASE table_type = "Table" ->
                IF user_distributed_by.tag # "ShardByKey" THEN Panic
                ELSE enforce_if_not_satisfies(user_distributed_by, input)
           [] table_type = "MaterializedView" ->
                IF user_distributed_by.tag # "Any" THEN Panic
                ELSE IF ~input.stream_key.some THEN Panic
                ELSE LET required_dist ==
                             shard_by_key(Len(input.schema), input.stream_key.v)
                     IN IF IsStreamJoin(input)
                        THEN Ok(enforce(required_dist, input))
                        ELSE enforce_if_not_satisfies(required_dist, input)
           [] table_type = "Index" ->
                IF ~(user_distributed_by.tag = "PhysicalDist"
                        /\ user_distributed_by.dist.tag = "HashShard")
                THEN Panic
                ELSE enforce_if_not_satisfies(user_distributed_by, input)
           [] table_type = "Internal" -> Panic

\* StreamMaterialize::rewrite_input(input, user_distributed_by, table_type)
rewrite_input(input, user_distributed_by, table_type) ==
    IF input.dist.tag = "Single"
    THEN enforce_if_not_satisfies(single, input)
    ELSE CASE table_type = "Table" ->
                IF user_distributed_by.tag # "ShardByKey" THEN Panic
                ELSE enforce_if_not_satisfies(user_distributed_by, input)
           [] table_type = "MaterializedView" ->
                IF user_distributed_by.tag # "Any" THEN Panic
                ELSE IF ~input.stream_key.some THEN Panic
                ELSE LET required_dist ==
                             shard_by_key(Len(input.schema), input.stream_key.v)
                     IN IF IsStreamJoin(input)
                        THEN Ok(enforce(required_dist, input))
                        ELSE enforce_if_not_satisfies(required_dist, input)
           [] table_type = "Index" ->
                IF ~(user_distributed_by.tag = "PhysicalDist"
                        /\ user_distributed_by.dist.tag = "HashShard")
                THEN Panic
                ELSE enforce_if_not_satisfies(user_distributed_by, input)
           [] table_type = "Internal" -> Panic

\* the keys of derive_table_catalog, with the stream key of a table taken
\* from the input
table_pk_stream_key_of_input(input, user_order_by, columns, pk_column_indices) ==
    IF pk_column_indices.some
    THEN IF ~input.stream_key.some THEN Panic
         ELSE Ok([pk |-> [i \in DOMAIN pk_column_indices.v |->
                            ColumnOrder(pk_column_indices.v[i], "Ascending")],
                  stream_key |-> input.stream_key.v])
    ELSE derive_pk(input, user_order_by, columns)

\* the keys of derive_table_catalog, with the order-by honoured for a table
table_pk_stream_key_ordered(input, user_order_by, columns, pk_column_indices) ==
    IF pk_column_indices.some
    THEN Ok([pk |-> user_order_by
                      \o MissingKeyCols(pk_column_indices.v,
                                        OrderCols(user_order_by)),
             stream_key |-> pk_column_indices.v])
    ELSE derive_pk(input, user_order_by, columns)

\* derive_table_catalog: let (table_pk, stream_key) = ..
table_pk_stream_key(input, user_order_by, columns, pk_column_indices) ==
    IF pk_column_indices.some
    THEN Ok([pk |-> [i \in DOMAIN pk_column_indices.v |->
                        ColumnOrder(pk_column_indices.v[i], "Ascending")],
             stream_key |-> pk_column_indices.v])
    ELSE derive_pk(input, user_order_by, columns)

\* derive_table_catalog, with the stream key as the distribution key
derive_table_catalog_dist_by_key(rewritten_input, user_order_by, columns, conflict_behavior, pk_column_indices, row_id_index, table_type) ==
    LET input == rewritten_input
        keys == table_pk_stream_key(input, user_order_by, columns,
                                    pk_column_indices)
    IN IF keys.status # "ok" THEN keys
       ELSE Ok([columns |-> columns,
                pk |-> keys.v.pk,
                stream_key |-> keys.v.stream_key,
                distribution_key |-> keys.v.stream_key,
                table_type |-> table_type,
                append_only |-> input.append_only,
                row_id_index |-> row_id_index,
                value_indices |-> [i \in DOMAIN columns |-> i - 1],
                conflict_behavior |-> conflict_behavior,
                read_prefix_len_hint |-> Len(keys.v.pk),
                watermark_columns |-> input.watermark_columns,
                dist_key_in_pk |-> <<>>,
                cleaned_by_watermark |-> FALSE])

\* StreamMaterialize::derive_table_catalog(rewritten_input, ..)
derive_table_catalog(rewritten_input, user_order_by, columns, conflict_behavior, pk_column_indices, row_id_index, table_type) ==
    LET input == rewritten_input
        keys == table_pk_stream_key(input, user_order_by, columns,
                                    pk_column_indices)
    IN IF keys.status # "ok" THEN keys
       ELSE Ok([columns |-> columns,
                pk |-> keys.v.pk,
                stream_key |-> keys.v.stream_key,
                distribution_key |-> dist_column_indices(input.dist),
                table_type |-> table_type,
                append_only |-> input.append_only,
                row_id_index |-> row_id_index,
                value_indices |-> [i \in DOMAIN columns |-> i - 1],
                conflict_behavior |-> conflict_behavior,
                read_prefix_len_hint |-> Len(keys.v.pk),
                watermark_columns |-> input.watermark_columns,
                dist_key_in_pk |-> <<>>,
                cleaned_by_watermark |-> FALSE])

\* StreamMaterialize::create(input, .., table_type, ..)
create(input, user_distributed_by, user_order_by, user_cols, out_names, table_type) ==
    LET rewritten == rewrite_input(input, user_distributed_by, table_type)
    IN IF rewritten.status # "ok" THEN rewritten
       ELSE LET inp == reorganize_elements_id(rewritten.v)
                columns == derive_columns(inp.schema, out_names, user_cols)
            IN IF columns.status # "ok" THEN columns
               ELSE LET table == derive_table_catalog(inp, user_order_by,
                                     columns.v, "NoCheck", NoneKey, NoneIdx,
                                     table_type)
                    IN IF table.status # "ok" THEN table
                       ELSE Ok(new(inp, table.v))

\* StreamMaterialize::create_for_table(input, .., pk_column_indices, ..)
create_for_table(input, user_distributed_by, user_order_by, columns, conflict_behavior, pk_column_indices, row_id_index) ==
    LET rewritten == rewrite_input(input, user_distributed_by, "Table")
    IN IF rewritten.status # "ok" THEN rewritten
       ELSE LET table == derive_table_catalog(rewritten.v, user_order_by,
                             columns, conflict_behavior,
                             Some(pk_column_indices), row_id_index, "Table")
            IN IF table.status # "ok" THEN table
               ELSE Ok(new(rewritten.v, table.v))

\* the three attributes of a field that clone_with_input compares
FieldType(f) ==
    [data_type |-> f.data_type, type_name |-> f.type_name,
     sub_fields |-> f.sub_fields]

\* clone_with_input, without the comparison of the fields
clone_with_input_unchecked(self, input) ==
    LET n == new(input, self.table)
    IN IF Len(n.base.schema) # Len(self.base.schema) THEN Panic
       ELSE IF n.base.stream_key # self.base.stream_key THEN Panic
       ELSE Ok(n)

\* PlanTreeNodeUnary::clone_with_input(self, input)
clone_with_input(self, input) ==
    LET n == new(input, self.table)
    IN IF Len(n.base.schema) # Len(self.base.schema) THEN Panic \* zip_eq_fast
       ELSE IF \E i \in DOMAIN n.base.schema :
                   FieldType(n.base.schema[i]) # FieldType(self.base.schema[i])
       THEN Panic
       ELSE IF n.base.stream_key # self.base.stream_key THEN Panic
       ELSE Ok(n)

\* --------------------------------------------------- the inputs explored
\* Three families of inputs, one per component: "resolver" varies the
\* distribution, stream key and kind of the input and the declared
\* distribution; "keys" varies the stream key, functional dependencies,
\* order-by and key-column list; "node" varies the schema and the
\* pass-through properties of the input and of the replacement child.
Scopes == {"resolver", "keys", "node"}

IntField(nm) ==
    [name |-> nm, data_type |-> "Int32", type_name |-> "", sub_fields |-> <<>>]
StructField(nm, tn) ==
    [name |-> nm, data_type |-> "Struct", type_name |-> tn,
     sub_fields |-> <<"Int32">>]

Fields == {IntField("a"), IntField("b"), StructField("a", "s")}

IntSchema(n) == [i \in 1 .. n |-> IntField("a")]

Schemas == UNION {[1 .. n -> Fields] : n \in 1 .. MaxCols}

PlanKinds ==
    {"StreamProject", "StreamHashJoin", "StreamTemporalJoin", "StreamDeltaJoin"}

TableTypes == {"Table", "MaterializedView", "Index", "Internal"}

KeyLists(n) == NoDupSeqs(Cols(n), MaxKeyLen)

StreamKeys(n) == {NoneKey} \cup {Some(k) : k \in KeyLists(n)}

Distributions(n) ==
    {Single} \cup {HashShard(k) : k \in KeyLists(n) \ {<<>>}}

FDSets(n) ==
    {{}} \cup (IF n >= 2 THEN {{[from |-> {0}, to |-> 1]}} ELSE {})
         \cup (IF n >= 3 THEN {{[from |-> {1, 2}, to |-> 0]}} ELSE {})

Orders(n) ==
    UNION {{[i \in DOMAIN k |-> ColumnOrder(k[i], d[i])] :
                d \in [DOMAIN k -> {"Ascending", "Descending"}]} :
           k \in KeyLists(n)}

Plan(kind, schema, stream_key, fds, dist, append_only, eowc, watermark) ==
    [kind |-> kind, schema |-> schema, stream_key |-> stream_key,
     functional_dependency |-> fds, dist |-> dist,
     append_only |-> append_only, emit_on_window_close |-> eowc,
     watermark_columns |-> watermark]

\* a plan with an empty stream key produces one row and runs on one worker
WellFormed(p) ==
    (p.stream_key.some /\ p.stream_key.v = <<>>) => p.dist = Single

Plans(sc) ==
    CASE sc = "resolver" ->
            {p \in {Plan(k, IntSchema(MaxCols), sk, {}, d, FALSE, FALSE, {}) :
                        k \in PlanKinds, sk \in StreamKeys(MaxCols),
                        d \in Distributions(MaxCols)} : WellFormed(p)}
      [] sc = "keys" ->
            {p \in {Plan("StreamProject", IntSchema(MaxCols), sk, fds, d,
                         FALSE, FALSE, {}) :
                        sk \in StreamKeys(MaxCols), fds \in FDSets(MaxCols),
                        d \in {Single, HashShard(<<0>>)}} : WellFormed(p)}
      [] sc = "node" ->
            {Plan("StreamProject", s, Some(<<0>>), {}, d, ao, ao,
                  IF ao THEN {0} ELSE {}) :
                s \in Schemas, d \in {Single, HashShard(<<0>>)},
                ao \in BOOLEAN}

\* the replacement children offered to clone_with_input
Children(sc) ==
    IF sc = "node" THEN Plans("node")
    ELSE {Plan("StreamProject", IntSchema(MaxCols), Some(<<0>>), {}, d,
               FALSE, FALSE, {}) : d \in {Single, HashShard(<<0>>)}}

RequiredDists(n) ==
    {Any, PhysicalDist(Single)}
        \cup {ShardByKey(S) : S \in (SUBSET Cols(n)) \ {{}}}
        \cup {PhysicalDist(HashShard(k)) : k \in KeyLists(n) \ {<<>>}}

\* the distribution each statement kind declares
DeclaredDist(table_type) ==
    CASE table_type = "Table" -> ShardByKey({0})
      [] table_type = "Index" -> PhysicalDist(HashShard(<<0>>))
      [] OTHER -> Any

UserDists(sc, n, table_type) ==
    IF sc = "resolver" THEN RequiredDists(n) ELSE {DeclaredDist(table_type)}

CreateTypes(sc) ==
    IF sc = "resolver" THEN TableTypes ELSE {"MaterializedView", "Index"}

UserOrders(sc, n) ==
    CASE sc = "resolver" -> {<<>>, <<ColumnOrder(0, "Descending")>>}
      [] sc = "keys" -> Orders(n)
      [] sc = "node" -> {<<>>}

ColumnNames == <<"c0", "c1", "c2", "c3", "c4", "c5", "c6", "c7">>

DefaultNames(n) == SubSeq(ColumnNames, 1, n)

\* the output names of a statement: distinct, or one name for every column
OutNames(sc, n) ==
    IF sc = "node" THEN {DefaultNames(n), [i \in 1 .. n |-> "c0"]}
    ELSE {DefaultNames(n)}

PkColumnIndices(sc, n) ==
    CASE sc = "resolver" -> {<<0>>}
      [] sc = "keys" -> KeyLists(n)
      [] sc = "node" -> NoDupSeqs(Cols(n), 1)

RowIdIndices(sc) ==
    IF sc = "keys" THEN {NoneIdx, Some(0)} ELSE {NoneIdx}

ConflictBehaviors(sc) ==
    IF sc = "resolver" THEN {"NoCheck", "Overwrite"} ELSE {"NoCheck"}

\* ------------------------------------------------------------ the machine
NoCall == [op |-> "none"]

Init ==
    /\ scope \in Scopes
    /\ call = NoCall
    /\ outcome = "none"
    /\ mat = <<>>
    /\ prev = <<>>
    /\ clones = 0

Finish(c, r) ==
    /\ call' = c
    /\ outcome' = r.status
    /\ mat' = IF r.status = "ok" THEN <<r.v>> ELSE <<>>

\* a statement handler builds the node for a materialized view or an index
Create ==
    /\ outcome = "none"
    /\ \E input \in Plans(scope), table_type \in CreateTypes(scope) :
       \E user_distributed_by \in
              UserDists(scope, Len(input.schema), table_type),
          user_order_by \in UserOrders(scope, Len(input.schema)),
          out_names \in OutNames(scope, Len(input.schema)) :
            Finish([op |-> "create", input |-> input,
                    user_distributed_by |-> user_distributed_by,
                    user_order_by |-> user_order_by,
                    out_names |-> out_names,
                    table_type |-> table_type],
                   create(input, user_distributed_by, user_order_by,
                          Cols(Len(input.schema)), out_names, table_type))
    /\ UNCHANGED <<scope, prev, clones>>

\* a statement handler builds the node for a table
CreateForTable ==
    /\ outcome = "none"
    /\ \E input \in Plans(scope) :
       \E user_distributed_by \in UserDists(scope, Len(input.schema), "Table"),
          user_order_by \in UserOrders(scope, Len(input.schema)),
          conflict_behavior \in ConflictBehaviors(scope),
          pk_column_indices \in PkColumnIndices(scope, Len(input.schema)),
          row_id_index \in RowIdIndices(scope) :
            Finish([op |-> "create_for_table", input |-> input,
                    user_distributed_by |-> user_distributed_by,
                    user_order_by |-> user_order_by,
                    conflict_behavior |-> conflict_behavior,
                    pk_column_indices |-> pk_column_indices,
                    row_id_index |-> row_id_index,
                    table_type |-> "Table"],
                   create_for_table(input, user_distributed_by, user_order_by,
                                    ColumnsOf(input.schema), conflict_behavior,
                                    pk_column_indices, row_id_index))
    /\ UNCHANGED <<scope, prev, clones>>

\* an optimizer pass substitutes the child of the node
CloneWithInput ==
    /\ outcome = "ok"
    /\ clones < MaxClones
    /\ \E input \in Children(scope) :
            Finish([op |-> "clone_with_input", input |-> input],
                   clone_with_input(mat[1], input))
    /\ prev' = mat
    /\ clones' = clones + 1
    /\ UNCHANGED scope

Next == Create \/ CreateForTable \/ CloneWithInput

Spec == Init /\ [][Next]_vars

\* ------------------------------------------------------------ properties
node == mat[1]

Created == call.op \in {"create", "create_for_table"}

Returned == outcome = "ok"

SameFieldTypes(s, t) ==
    /\ Len(s) = Len(t)
    /\ \A i \in DOMAIN s :
          /\ s[i].data_type = t[i].data_type
          /\ s[i].type_name = t[i].type_name
          /\ s[i].sub_fields = t[i].sub_fields

\* the case of C1: a materialized view over a join that is not on one worker
ViewOverJoin ==
    /\ call.op = "create"
    /\ call.table_type = "MaterializedView"
    /\ call.user_distributed_by = Any
    /\ call.input.dist # Single
    /\ call.input.kind \in
          {"StreamHashJoin", "StreamTemporalJoin", "StreamDeltaJoin"}

\* C1 as stated: for a materialized view over a stream hash, temporal or
\* delta join whose distribution is not Single, the returned input keeps the
\* join's distribution and no redistribution stage is put above the join.
C1_JoinLeftUnchanged ==
    (ViewOverJoin /\ Returned) =>
        /\ node.input.dist = call.input.dist
        /\ node.input.kind # "StreamExchange"

\* C1 amended: for a materialized view over such a join the returned input
\* is always a redistribution stage directly above the join, hash-sharded by
\* all columns of the join's stream key in ascending column order, whether or
\* not the join's own distribution already satisfied that requirement.
C1_JoinReshardedByStreamKey ==
    (ViewOverJoin /\ Returned) =>
        /\ node.input.kind = "StreamExchange"
        /\ node.input.input = <<call.input>>
        /\ node.input.dist.tag = "HashShard"
        /\ Range(node.input.dist.key) = Range(call.input.stream_key.v)
        /\ \A i, j \in DOMAIN node.input.dist.key :
              i < j => node.input.dist.key[i] < node.input.dist.key[j]

\* a join already sharded by its whole stream key is resharded all the same
C1_Witness ==
    /\ ViewOverJoin /\ Returned
    /\ call.input.dist = HashShard(call.input.stream_key.v)
    /\ node.input.kind = "StreamExchange"

\* the declared distribution does not fit the table kind
DeclaredMismatch ==
    /\ Created
    /\ \/ /\ call.table_type = "Table"
          /\ call.user_distributed_by.tag # "ShardByKey"
       \/ /\ call.table_type = "Index"
          /\ ~(call.user_distributed_by.tag = "PhysicalDist"
                 /\ call.user_distributed_by.dist.tag = "HashShard")

\* C2 as stated: for every input, a Table whose declared distribution is no
\* shard-by-key request, or an Index whose declared distribution is no
\* resolved hash-shard request, fails fatally.
C2_MismatchAlwaysFatal == DeclaredMismatch => outcome = "panic"

\* C2 amended: for every input whose distribution is not Single, a Table
\* whose declared distribution is no shard-by-key request, or an Index whose
\* declared distribution is no resolved hash-shard request, fails fatally and
\* no node is returned.
C2_MismatchFatalUnlessSingle ==
    (DeclaredMismatch /\ call.input.dist # Single) =>
        (outcome = "panic" /\ mat = <<>>)

C2_Witness ==
    /\ DeclaredMismatch
    /\ call.table_type = "Table"
    /\ call.user_distributed_by = Any
    /\ call.input.dist.tag = "HashShard"
    /\ outcome = "panic"

\* C3, on the explicit-key path: every table descriptor returned by
\* create_for_table has a non-empty primary key, for any caller-supplied
\* key-column list.
C3_PrimaryKeyNonEmpty ==
    (call.op = "create_for_table" /\ Returned) => node.table.pk # <<>>

\* C4: in every table descriptor built by create or create_for_table the
\* stream-key columns are among the columns of the primary key.
C4_StreamKeyWithinPrimaryKey ==
    (Created /\ Returned) =>
        Range(node.table.stream_key) \subseteq OrderCols(node.table.pk)

\* a derived key whose order-by column is no stream-key column
C4_Witness ==
    /\ call.op = "create" /\ Returned
    /\ node.table.stream_key # <<>>
    /\ Range(node.table.stream_key) # OrderCols(node.table.pk)

\* C5: create_for_table with key-column list K gives the primary key K in
\* the same order, every column ascending, and the stream key K, whatever
\* the order-by, the input's stream key, the row-id column and the input's
\* functional dependencies are.
C5_ExplicitKeyIdentity ==
    (call.op = "create_for_table" /\ Returned) =>
        /\ Len(node.table.pk) = Len(call.pk_column_indices)
        /\ \A i \in DOMAIN node.table.pk :
              /\ node.table.pk[i].column_index = call.pk_column_indices[i]
              /\ node.table.pk[i].order_type = "Ascending"
        /\ node.table.stream_key = call.pk_column_indices

\* K = [1, 0] under a descending order-by on another leading column, an input
\* keyed differently, a row-id column and a functional dependency
C5_Witness ==
    /\ call.op = "create_for_table" /\ Returned
    /\ call.pk_column_indices = <<1, 0>>
    /\ call.user_order_by = <<ColumnOrder(0, "Descending")>>
    /\ call.input.stream_key = Some(<<0>>)
    /\ call.row_id_index = Some(0)
    /\ call.input.functional_dependency # {}

\* C6: a node returned by clone_with_input(M, C) has the field types and the
\* stream key of M and carries M's table descriptor; if the schema of C
\* differs from M's in a field type or in the number of fields, the
\* substitution fails fatally.
C6_CloneKeepsTypesAndKey ==
    call.op = "clone_with_input" =>
        /\ Returned =>
              /\ SameFieldTypes(node.base.schema, prev[1].base.schema)
              /\ node.base.stream_key = prev[1].base.stream_key
              /\ node.table = prev[1].table
        /\ ~SameFieldTypes(call.input.schema, prev[1].base.schema) =>
              (outcome = "panic" /\ mat = <<>>)

\* a child with the same field types under other field names is accepted
C6_Witness ==
    /\ call.op = "clone_with_input" /\ Returned
    /\ node.input = call.input
    /\ node.base.schema # prev[1].base.schema
    /\ Len(node.base.schema) > 1

\* C7 as stated: every node built by new exposes the schema, the stream key,
\* the distribution, the append-only flag and the watermark columns of its
\* input.
C7_PassThroughWithKey ==
    Returned =>
        /\ node.base.schema = node.input.schema
        /\ node.base.stream_key = node.input.stream_key
        /\ node.base.dist = node.input.dist
        /\ node.base.append_only = node.input.append_only
        /\ node.base.watermark_columns = node.input.watermark_columns

\* C7 amended: every node built by new exposes the schema, the distribution,
\* the append-only flag and the watermark columns of its input, and as its
\* key the stream key of its table descriptor.
C7_PassThroughWithTableKey ==
    Returned =>
        /\ node.base.schema = node.input.schema
        /\ node.base.dist = node.input.dist
        /\ node.base.append_only = node.input.append_only
        /\ node.base.watermark_columns = node.input.watermark_columns
        /\ node.base.stream_key = Some(node.table.stream_key)

\* a node whose child was replaced by one of another append-only flag,
\* distribution and watermark set
C7_Witness ==
    /\ call.op = "clone_with_input" /\ Returned
    /\ node.input.append_only # prev[1].input.append_only
    /\ node.input.dist # prev[1].input.dist
    /\ node.table.append_only # node.base.append_only

\* the case of C8: a materialized view over an input that is neither on one
\* worker nor a join
ViewOverOther ==
    /\ call.op = "create"
    /\ call.table_type = "MaterializedView"
    /\ call.input.dist # Single
    /\ call.input.kind \notin
          {"StreamHashJoin", "StreamTemporalJoin", "StreamDeltaJoin"}

\* C8: for a materialized view over an input that is not Single and no join,
\* the input is required to be sharded by the columns of the stream key kept
\* in the table descriptor: an input already hash-sharded within those
\* columns is kept, any other is resharded by exactly all of them, and the
\* descriptor's distribution key has only columns of its stream key.
C8_ViewShardedByStreamKey ==
    (ViewOverOther /\ Returned) =>
        LET key == Range(node.table.stream_key)
        IN /\ Range(node.table.distribution_key) \subseteq key
           /\ node.table.distribution_key # <<>>
           /\ IF Range(call.input.dist.key) \subseteq key
              THEN node.input = call.input
              ELSE /\ node.input.kind = "StreamExchange"
                   /\ node.input.input = <<call.input>>
                   /\ node.input.dist.tag = "HashShard"
                   /\ Range(node.input.dist.key) = key

\* an input sharded by a column outside its stream key is resharded
C8_Witness ==
    /\ ViewOverOther /\ Returned
    /\ call.input.dist = HashShard(<<0>>)
    /\ node.table.stream_key = <<1>>
    /\ node.table.distribution_key = <<1>>

\* C9: over an input whose distribution is Single, for every table kind and
\* declared distribution, the node is built over the input itself, without a
\* redistribution stage, and the descriptor's distribution key is empty;
\* create_for_table never fails there.
C9_SingleInputKept ==
    (Created /\ call.input.dist = Single) =>
        /\ Returned =>
              /\ node.input = call.input
              /\ node.base.dist = Single
              /\ node.table.distribution_key = <<>>
        /\ call.op = "create_for_table" => Returned

\* a table over a Single input with a declared hash-shard distribution
C9_Witness ==
    /\ call.op = "create_for_table" /\ Returned
    /\ call.input.dist = Single
    /\ call.user_distributed_by = PhysicalDist(HashShard(<<0>>))
    /\ node.table.distribution_key = <<>>

\* C10 as stated: after create or create_for_table and any number of child
\* substitutions the descriptor's distribution key is the distribution-column
\* list of the distribution the node exposes.
C10_DistributionKeyFollowsNode ==
    Returned =>
        node.table.distribution_key = dist_column_indices(node.base.dist)

\* C10 amended: the descriptor's distribution key is the distribution-column
\* list of the distribution of the node returned by create or
\* create_for_table; a child substitution keeps the descriptor's
\* distribution key and exposes the distribution of the new child.
C10_DistributionKeyFixedAtCreation ==
    /\ (Created /\ Returned) =>
          node.table.distribution_key = dist_column_indices(node.base.dist)
    /\ (call.op = "clone_with_input" /\ Returned) =>
          /\ node.table.distribution_key = prev[1].table.distribution_key
          /\ node.base.dist = call.input.dist

\* a node created over a resharded input, and a substitution that moves it
\* from one worker to hash shards
C10_Witness ==
    /\ call.op = "clone_with_input" /\ Returned
    /\ prev[1].table.distribution_key = <<>>
    /\ node.base.dist = HashShard(<<0>>)

====
